---- MODULE Spec2Model ----
(***************************************************************************)
(* nodeselector-notify: the watch-event loop of src/main.rs.               *)
(*                                                                         *)
(* The loop reads events from a kube watcher one at a time, classifies the *)
(* Deployment each carries (ignored namespace, nodeSelector present),      *)
(* collects the violations seen while the watcher is initialising and      *)
(* posts them to Slack as one batch, and posts one message per violation   *)
(* once the watcher is streaming.                                          *)
(*                                                                         *)
(* Option<T> is modelled as a set with at most one element: None is {},    *)
(* Some(x) is {x}.  A message text is the sequence of the pieces format!   *)
(* joins: the literal parts of the format string and the arguments put in  *)
(* its holes.  The two non-ASCII characters of the format strings are      *)
(* written by their names, "(warning sign)" and "(bullet)".                *)
(***************************************************************************)
EXTENDS Naturals, Sequences, FiniteSets, TLC

VARIABLES
    pc,                 \* where main is: "recv" (at watcher.try_next().await),
                        \* "send_single" / "send_batch" (at the awaited POST),
                        \* "exit_ok" / "exit_err" (main has returned)
    init_violations,    \* main.rs:121, Vec<(String, String)>
    ignored_namespaces, \* main.rs:107, HashSet<String>
    event,              \* the value try_next() returned last
    inflight,           \* the SlackMessage of the POST being awaited, as an Option
    sent,               \* the sink's record: every POST that has completed, in order
    nevents,            \* number of events the transport has delivered
    phase_items,        \* history: the Deployments of the InitApply events since
                        \* the last Init or InitDone event, in order
    stale_items,        \* history: the Deployments of the InitApply events that
                        \* an Init event found pending (abandoned listings)
    phase,              \* history: "Priming" until the first InitDone event and
                        \* "Streaming" after it; "Repriming" after an Init event
                        \* that followed an InitDone event, and "Restreaming"
                        \* after the InitDone event that ends such a listing
    upserted,           \* history: the Deployments of the Apply events, in order
    closed,             \* the transport's stream has ended: try_next() will
                        \* return Ok(None)
    cl_in,              \* input of the classification run (SpecClassify)
    cl_out,             \* its result, as an Option
    pr_in,              \* env::var("IGNORED_NAMESPACES") of the parsing run
                        \* (SpecParse), an Option of a sequence of characters
    pr_out,             \* the set parse_ignored_namespaces returned, as an Option
    mt_out              \* the last should_ignore_namespace call of the parsing
                        \* run and its result, as an Option

vars == <<pc, init_violations, ignored_namespaces, event, inflight, sent,
          nevents, phase_items, stale_items, phase, upserted, closed,
          cl_in, cl_out, pr_in, pr_out, mt_out>>

\* the variables of the classification run and of the parsing run
cl_vars == <<cl_in, cl_out, pr_in, pr_out, mt_out>>

\* the history variables of the loop
hist_vars == <<phase_items, stale_items, phase, upserted>>

----------------------------------------------------------------------------
(* Bounds *)

MaxEvents == 4

----------------------------------------------------------------------------
(* Option<T> *)

None == {}

Some(x) == {x}

Unwrap(o) == CHOOSE x \in o : TRUE

UnwrapOr(o, dflt) == IF o = {} THEN dflt ELSE Unwrap(o)

----------------------------------------------------------------------------
(* Deployments *)

\* A Deployment as far as main.rs reads it: metadata.name, metadata.namespace,
\* spec -> template -> spec -> node_selector.
Deployment(name, namespace, spec) ==
    [metadata |-> [name |-> name, namespace |-> namespace], spec |-> spec]

DeploymentSpec(pod_spec) == [template |-> [spec |-> pod_spec]]

PodSpec(node_selector) == [node_selector |-> node_selector]

EmptyMap == [k \in {} |-> "none"]

PoolMap == [k \in {"pool"} |-> "gpu"]

\* The Deployments the transport delivers in the loop's specification.
Deployments ==
    { Deployment(None, None, None),
      Deployment(Some("web"), Some("prod"),
                 Some(DeploymentSpec(Some(PodSpec(Some(EmptyMap)))))),
      Deployment(Some("api"), Some("prod"),
                 Some(DeploymentSpec(Some(PodSpec(Some(PoolMap)))))),
      Deployment(Some("dns"), Some("kube-system"),
                 Some(DeploymentSpec(None))),
      Deployment(Some("proxy"), Some("kube-system"),
                 Some(DeploymentSpec(Some(PodSpec(Some(PoolMap)))))) }

\* The values IGNORED_NAMESPACES is parsed to in the loop's specification.
IgnoredChoices == { {}, {"kube-system"}, {"default"} }

\* env::var("ENV"), main.rs:106
ENV == Some("staging")

env_name == UnwrapOr(ENV, "unknown")

----------------------------------------------------------------------------
(* Pure functions *)

\* Faulty variant of has_node_selector: is_some() in place of
\* map(|ns| !ns.is_empty()).unwrap_or(false), so an empty mapping counts.
has_node_selector_is_some(deployment) ==
    LET spec     == deployment.spec
        pod_spec == IF spec = None THEN None ELSE Unwrap(spec).template.spec
        ns       == IF pod_spec = None THEN None ELSE Unwrap(pod_spec).node_selector
    IN  ns # None

has_node_selector(deployment) ==
    LET spec     == deployment.spec
        pod_spec == IF spec = None THEN None ELSE Unwrap(spec).template.spec
        ns       == IF pod_spec = None THEN None ELSE Unwrap(pod_spec).node_selector
    IN  IF ns = None THEN FALSE ELSE DOMAIN Unwrap(ns) # {}

\* Faulty variant of should_ignore_namespace: the set is never consulted.
should_ignore_namespace_never(namespace, ignored) == FALSE

should_ignore_namespace(namespace, ignored) == namespace \in ignored

\* Faulty variant of metadata_name: unwrap_or_default() in place of
\* unwrap_or("unknown").
metadata_name_or_empty(deployment) == UnwrapOr(deployment.metadata.name, "")

metadata_name(deployment) == UnwrapOr(deployment.metadata.name, "unknown")

\* Faulty variant of metadata_namespace: a missing namespace is read as the
\* empty string (unwrap_or_default) and not as "default".
metadata_namespace_or_empty(deployment) == UnwrapOr(deployment.metadata.namespace, "")

metadata_namespace(deployment) == UnwrapOr(deployment.metadata.namespace, "default")

RECURSIVE join(_, _)
\* Vec<String>::join: the elements with sep between each two.
join(list, sep) ==
    IF list = <<>> THEN <<>>
    ELSE IF Len(list) = 1 THEN list[1]
    ELSE list[1] \o <<sep>> \o join(Tail(list), sep)

\* send_slack_notification, main.rs:25-30
single_message(env, deployment_name) ==
    [text |-> <<"(warning sign) Deployment missing nodeSelector\nenv: ", env,
                "\nname: ", deployment_name>>]

\* Faulty variant of batch_message: the list is built back to front.
batch_message_reversed(env, deployments) ==
    LET n == Len(deployments)
        deployment_list ==
            [i \in 1..n |->
                <<"(bullet) ", deployments[n + 1 - i][1], "/", deployments[n + 1 - i][2]>>]
    IN  [text |-> <<"(warning sign) Found ", ToString(n),
                    " deployment(s) missing nodeSelector\nenv: ", env, "\n">>
                  \o join(deployment_list, "\n")]

\* send_slack_batch_notification, main.rs:51-63
batch_message(env, deployments) ==
    LET deployment_list ==
            [i \in 1..Len(deployments) |->
                <<"(bullet) ", deployments[i][1], "/", deployments[i][2]>>]
    IN  [text |-> <<"(warning sign) Found ", ToString(Len(deployments)),
                    " deployment(s) missing nodeSelector\nenv: ", env, "\n">>
                  \o join(deployment_list, "\n")]

----------------------------------------------------------------------------
(* The event loop, main.rs:123-189 *)

Ev(kind, obj) == [kind |-> kind, obj |-> obj]

\* try_next() can return an event: the stream has not ended, and the transport
\* delivers at most MaxEvents events.
CanRecv == pc = "recv" /\ ~closed /\ nevents < MaxEvents

Init ==
    /\ pc = "recv"
    /\ init_violations = <<>>
    /\ ignored_namespaces \in IgnoredChoices
    /\ event = Ev("none", None)
    /\ inflight = None
    /\ sent = <<>>
    /\ nevents = 0
    /\ phase_items = <<>>
    /\ stale_items = <<>>
    /\ phase = "Priming"
    /\ upserted = <<>>
    /\ closed = FALSE
    /\ cl_in = None
    /\ cl_out = None
    /\ pr_in = None
    /\ pr_out = None
    /\ mt_out = None

\* Faulty variant of Apply: the violation is pushed to init_violations, as in
\* the InitApply arm, instead of being posted.
Apply_batched(deployment) ==
    /\ CanRecv
    /\ event' = Ev("Apply", Some(deployment))
    /\ nevents' = nevents + 1
    /\ upserted' = Append(upserted, deployment)
    /\ LET name      == metadata_name(deployment)
           namespace == metadata_namespace(deployment)
       IN  IF should_ignore_namespace(namespace, ignored_namespaces)
           THEN UNCHANGED init_violations
           ELSE IF ~has_node_selector(deployment)
                THEN init_violations' = Append(init_violations, <<namespace, name>>)
                ELSE UNCHANGED init_violations
    /\ UNCHANGED <<pc, ignored_namespaces, inflight, sent, phase_items, stale_items,
                   phase, closed, cl_vars>>

\* Faulty variant of Apply: the negation of has_node_selector is missing.
Apply_inverted(deployment) ==
    /\ CanRecv
    /\ event' = Ev("Apply", Some(deployment))
    /\ nevents' = nevents + 1
    /\ upserted' = Append(upserted, deployment)
    /\ LET name      == metadata_name(deployment)
           namespace == metadata_namespace(deployment)
       IN  IF should_ignore_namespace(namespace, ignored_namespaces)
           THEN UNCHANGED <<pc, inflight>>
           ELSE IF has_node_selector(deployment)
                THEN /\ pc' = "send_single"
                     /\ inflight' = Some([kind |-> "single",
                                          msg  |-> single_message(env_name, name)])
                ELSE UNCHANGED <<pc, inflight>>
    /\ UNCHANGED <<init_violations, ignored_namespaces, sent, phase_items,
                   stale_items, phase, closed, cl_vars>>

\* Faulty variant of Apply: a Deployment whose notification was posted before
\* is not posted again.
Apply_once(deployment) ==
    /\ CanRecv
    /\ event' = Ev("Apply", Some(deployment))
    /\ nevents' = nevents + 1
    /\ upserted' = Append(upserted, deployment)
    /\ LET name      == metadata_name(deployment)
           namespace == metadata_namespace(deployment)
       IN  IF should_ignore_namespace(namespace, ignored_namespaces)
           THEN UNCHANGED <<pc, inflight>>
           ELSE IF /\ ~has_node_selector(deployment)
                   /\ \A i \in 1..Len(sent) :
                          sent[i].msg # single_message(env_name, name)
                THEN /\ pc' = "send_single"
                     /\ inflight' = Some([kind |-> "single",
                                          msg  |-> single_message(env_name, name)])
                ELSE UNCHANGED <<pc, inflight>>
    /\ UNCHANGED <<init_violations, ignored_namespaces, sent, phase_items,
                   stale_items, phase, closed, cl_vars>>

\* Faulty variant of Apply: the POST is started and not awaited, so the loop
\* goes back to try_next() while the delivery is outstanding.
Apply_no_await(deployment) ==
    /\ CanRecv
    /\ event' = Ev("Apply", Some(deployment))
    /\ nevents' = nevents + 1
    /\ upserted' = Append(upserted, deployment)
    /\ LET name      == metadata_name(deployment)
           namespace == metadata_namespace(deployment)
       IN  IF should_ignore_namespace(namespace, ignored_namespaces)
           THEN UNCHANGED inflight
           ELSE IF ~has_node_selector(deployment)
                THEN inflight' = Some([kind |-> "single",
                                       msg  |-> single_message(env_name, name)])
                ELSE UNCHANGED inflight
    /\ UNCHANGED <<pc, init_violations, ignored_namespaces, sent, phase_items,
                   stale_items, phase, closed, cl_vars>>

\* Event::Apply(deployment), main.rs:125-147, up to the awaited POST of
\* send_slack_notification.
Apply(deployment) ==
    /\ CanRecv
    /\ event' = Ev("Apply", Some(deployment))
    /\ nevents' = nevents + 1
    /\ upserted' = Append(upserted, deployment)
    /\ LET name      == metadata_name(deployment)
           namespace == metadata_namespace(deployment)
       IN  IF should_ignore_namespace(namespace, ignored_namespaces)
           THEN UNCHANGED <<pc, inflight>>
           ELSE IF ~has_node_selector(deployment)
                THEN /\ pc' = "send_single"
                     /\ inflight' = Some([kind |-> "single",
                                          msg  |-> single_message(env_name, name)])
                ELSE UNCHANGED <<pc, inflight>>
    /\ UNCHANGED <<init_violations, ignored_namespaces, sent, phase_items,
                   stale_items, phase, closed, cl_vars>>

\* Faulty variant of SingleSendComplete: a failed POST is made again.
SingleSendComplete_retry(ok) ==
    /\ pc = "send_single"
    /\ sent' = Append(sent, [kind |-> "single", msg |-> Unwrap(inflight).msg,
                             ok |-> ok])
    /\ IF ok THEN inflight' = None /\ pc' = "recv"
             ELSE UNCHANGED <<inflight, pc>>
    /\ UNCHANGED <<init_violations, ignored_namespaces, event, nevents,
                   hist_vars, closed, cl_vars>>

\* Faulty variant of SingleSendComplete: the Err is propagated with ? instead
\* of being logged, so a failed delivery ends main.
SingleSendComplete_propagate(ok) ==
    /\ pc = "send_single"
    /\ sent' = Append(sent, [kind |-> "single", msg |-> Unwrap(inflight).msg,
                             ok |-> ok])
    /\ inflight' = None
    /\ pc' = IF ok THEN "recv" ELSE "exit_err"
    /\ UNCHANGED <<init_violations, ignored_namespaces, event, nevents,
                   hist_vars, closed, cl_vars>>

\* The POST of send_slack_notification completes (main.rs:32); the caller logs
\* an Err (main.rs:139-143) and the loop goes on to the next try_next().
SingleSendComplete(ok) ==
    /\ pc = "send_single"
    /\ sent' = Append(sent, [kind |-> "single", msg |-> Unwrap(inflight).msg,
                             ok |-> ok])
    /\ inflight' = None
    /\ pc' = "recv"
    /\ UNCHANGED <<init_violations, ignored_namespaces, event, nevents,
                   hist_vars, closed, cl_vars>>

\* Faulty variant of Delete: the arm checks the Deployment and posts, as the
\* Apply arm does.
Delete_notifying(deployment) ==
    /\ CanRecv
    /\ event' = Ev("Delete", Some(deployment))
    /\ nevents' = nevents + 1
    /\ LET name      == metadata_name(deployment)
           namespace == metadata_namespace(deployment)
       IN  IF should_ignore_namespace(namespace, ignored_namespaces)
           THEN UNCHANGED <<pc, inflight>>
           ELSE IF ~has_node_selector(deployment)
                THEN /\ pc' = "send_single"
                     /\ inflight' = Some([kind |-> "single",
                                          msg  |-> single_message(env_name, name)])
                ELSE UNCHANGED <<pc, inflight>>
    /\ UNCHANGED <<init_violations, ignored_namespaces, sent, hist_vars, closed,
                   cl_vars>>

\* Event::Delete(deployment), main.rs:148-151
Delete(deployment) ==
    /\ CanRecv
    /\ event' = Ev("Delete", Some(deployment))
    /\ nevents' = nevents + 1
    /\ UNCHANGED <<pc, init_violations, ignored_namespaces, inflight, sent,
                   hist_vars, closed, cl_vars>>

\* Faulty variant of EvInit: init_violations.clear() is missing.
EvInit_keep ==
    /\ CanRecv
    /\ event' = Ev("Init", None)
    /\ nevents' = nevents + 1
    /\ stale_items' = stale_items \o phase_items
    /\ phase_items' = <<>>
    /\ phase' = (IF phase = "Priming" THEN "Priming" ELSE "Repriming")
    /\ UNCHANGED <<pc, init_violations, ignored_namespaces, inflight, sent, upserted,
                   closed, cl_vars>>

\* Event::Init, main.rs:152-155
EvInit ==
    /\ CanRecv
    /\ event' = Ev("Init", None)
    /\ nevents' = nevents + 1
    /\ init_violations' = <<>>
    /\ stale_items' = stale_items \o phase_items
    /\ phase_items' = <<>>
    /\ phase' = (IF phase = "Priming" THEN "Priming" ELSE "Repriming")
    /\ UNCHANGED <<pc, ignored_namespaces, inflight, sent, upserted, closed, cl_vars>>

\* Event::InitApply(deployment), main.rs:156-172
InitApply(deployment) ==
    /\ CanRecv
    /\ event' = Ev("InitApply", Some(deployment))
    /\ nevents' = nevents + 1
    /\ phase_items' = Append(phase_items, deployment)
    /\ LET name      == metadata_name(deployment)
           namespace == metadata_namespace(deployment)
       IN  IF should_ignore_namespace(namespace, ignored_namespaces)
           THEN UNCHANGED init_violations
           ELSE IF ~has_node_selector(deployment)
                THEN init_violations' = Append(init_violations, <<namespace, name>>)
                ELSE UNCHANGED init_violations
    /\ UNCHANGED <<pc, ignored_namespaces, inflight, sent, stale_items, phase,
                   upserted, closed, cl_vars>>

\* Event::InitDone, main.rs:173-187, up to the awaited POST of
\* send_slack_batch_notification; for an empty slice that function returns Ok
\* at once (main.rs:46-48) and the arm runs to its end.
InitDone ==
    /\ CanRecv
    /\ event' = Ev("InitDone", None)
    /\ nevents' = nevents + 1
    /\ phase_items' = <<>>
    /\ phase' = (IF phase = "Repriming" THEN "Restreaming" ELSE "Streaming")
    /\ IF init_violations = <<>>
       THEN /\ init_violations' = <<>>
            /\ UNCHANGED <<pc, inflight>>
       ELSE /\ pc' = "send_batch"
            /\ inflight' = Some([kind |-> "batch",
                                 msg  |-> batch_message(env_name, init_violations)])
            /\ UNCHANGED init_violations
    /\ UNCHANGED <<ignored_namespaces, sent, stale_items, upserted, closed, cl_vars>>

\* Faulty variant of BatchSendComplete: init_violations is cleared only when the
\* delivery succeeded.
BatchSendComplete_clear_on_ok(ok) ==
    /\ pc = "send_batch"
    /\ sent' = Append(sent, [kind |-> "batch", msg |-> Unwrap(inflight).msg,
                             ok |-> ok])
    /\ inflight' = None
    /\ init_violations' = IF ok THEN <<>> ELSE init_violations
    /\ pc' = "recv"
    /\ UNCHANGED <<ignored_namespaces, event, nevents, hist_vars, closed, cl_vars>>

\* The POST of send_slack_batch_notification completes (main.rs:65); the caller
\* logs an Err and clears init_violations (main.rs:179-186).
BatchSendComplete(ok) ==
    /\ pc = "send_batch"
    /\ sent' = Append(sent, [kind |-> "batch", msg |-> Unwrap(inflight).msg,
                             ok |-> ok])
    /\ inflight' = None
    /\ init_violations' = <<>>
    /\ pc' = "recv"
    /\ UNCHANGED <<ignored_namespaces, event, nevents, hist_vars, closed, cl_vars>>

\* Faulty variant of TransportError: the Err is skipped and the loop polls again.
TransportError_skip ==
    /\ pc = "recv"
    /\ ~closed
    /\ event' = Ev("Err", None)
    /\ UNCHANGED <<pc, init_violations, ignored_namespaces, inflight, sent, nevents,
                   hist_vars, closed, cl_vars>>

\* watcher.try_next().await? is Err(e): main returns the error (main.rs:123).
TransportError ==
    /\ pc = "recv"
    /\ ~closed
    /\ event' = Ev("Err", None)
    /\ pc' = "exit_err"
    /\ UNCHANGED <<init_violations, ignored_namespaces, inflight, sent, nevents,
                   hist_vars, closed, cl_vars>>

\* Faulty variant of TransportClosed: Ok(None) does not end the loop, which
\* calls try_next() again.
TransportClosed_hang ==
    /\ pc = "recv"
    /\ closed
    /\ event' = Ev("End", None)
    /\ UNCHANGED <<pc, init_violations, ignored_namespaces, inflight, sent, nevents,
                   hist_vars, closed, cl_vars>>

\* watcher.try_next().await? is Ok(None): the loop ends and main returns Ok(())
\* (main.rs:123, 191).
TransportClosed ==
    /\ pc = "recv"
    /\ closed
    /\ event' = Ev("End", None)
    /\ pc' = "exit_ok"
    /\ UNCHANGED <<init_violations, ignored_namespaces, inflight, sent, nevents,
                   hist_vars, closed, cl_vars>>

\* The transport's stream ends (the watcher is dropped or closed): from now on
\* try_next() returns Ok(None). This can happen while a POST is awaited.
StreamEnds ==
    /\ pc \in {"recv", "send_single", "send_batch"}
    /\ ~closed
    /\ closed' = TRUE
    /\ UNCHANGED <<pc, init_violations, ignored_namespaces, event, inflight, sent,
                   nevents, hist_vars, cl_vars>>

Next ==
    \/ EvInit
    \/ \E d \in Deployments : InitApply(d)
    \/ InitDone
    \/ \E ok \in BOOLEAN : BatchSendComplete(ok)
    \/ \E d \in Deployments : Apply(d)
    \/ \E ok \in BOOLEAN : SingleSendComplete(ok)
    \/ \E d \in Deployments : Delete(d)
    \/ TransportError
    \/ StreamEnds
    \/ TransportClosed

Spec == Init /\ [][Next]_vars

\* main is one task on the runtime: an awaited POST that completes resumes it,
\* and so does a try_next() that has Ok(None) to return. The POSTs are assumed
\* to complete (the Client sets no timeout, main.rs:24, 50).
Fairness ==
    /\ WF_vars(\E ok \in BOOLEAN : SingleSendComplete(ok))
    /\ WF_vars(\E ok \in BOOLEAN : BatchSendComplete(ok))
    /\ WF_vars(TransportClosed)

SpecLive == Spec /\ Fairness

----------------------------------------------------------------------------
(* The classification run: has_node_selector applied to one Deployment *)

Names == {None, Some("web"), Some("api")}

Namespaces == {None, Some("prod")}

SelectorKeys == {"pool", "zone"}

SelectorValues == {"gpu", "a"}

\* BTreeMap<String, String> values of node_selector: every map over a subset
\* of SelectorKeys.
SelectorMaps == UNION {[ks -> SelectorValues] : ks \in SUBSET SelectorKeys}

SpecShapes ==
    {None, Some(DeploymentSpec(None)), Some(DeploymentSpec(Some(PodSpec(None))))}
    \cup {Some(DeploymentSpec(Some(PodSpec(Some(m))))) : m \in SelectorMaps}

ClassifyInputs ==
    {Deployment(n, ns, s) : n \in Names, ns \in Namespaces, s \in SpecShapes}

InitClassify ==
    /\ pc = "classify"
    /\ init_violations = <<>>
    /\ ignored_namespaces = {}
    /\ event = Ev("none", None)
    /\ inflight = None
    /\ sent = <<>>
    /\ nevents = 0
    /\ phase_items = <<>>
    /\ stale_items = <<>>
    /\ phase = "Priming"
    /\ upserted = <<>>
    /\ closed = FALSE
    /\ cl_in \in {Some(d) : d \in ClassifyInputs}
    /\ cl_out = None
    /\ pr_in = None
    /\ pr_out = None
    /\ mt_out = None

Classify ==
    /\ pc = "classify"
    /\ cl_out = None
    /\ cl_out' = Some(has_node_selector(Unwrap(cl_in)))
    /\ UNCHANGED <<pc, init_violations, ignored_namespaces, event, inflight,
                   sent, nevents, hist_vars, closed, cl_in, pr_in, pr_out, mt_out>>

NextClassify == Classify

SpecClassify == InitClassify /\ [][NextClassify]_vars

----------------------------------------------------------------------------
(* Vocabulary of the properties, stated on the Deployment as delivered *)

\* The (namespace, name) a workload is reported under.
RefOf(d) ==
    << IF d.metadata.namespace = {} THEN "default"
       ELSE CHOOSE n \in d.metadata.namespace : TRUE,
       IF d.metadata.name = {} THEN "unknown"
       ELSE CHOOSE n \in d.metadata.name : TRUE >>

\* The workload declares a node-selector mapping with at least one entry.
Compliant(d) ==
    \E s \in d.spec : \E p \in s.template.spec : \E m \in p.node_selector :
        \E k \in DOMAIN m : TRUE

\* The workload's namespace is in the ignored set.
Excluded(d) == RefOf(d)[1] \in ignored_namespaces

Violating(d) == ~Excluded(d) /\ ~Compliant(d)

RECURSIVE ViolationsOf(_)
\* The references of the violating workloads of a sequence of Deployments, in
\* the order of the sequence.
ViolationsOf(items) ==
    IF items = <<>> THEN <<>>
    ELSE (IF Violating(Head(items)) THEN <<RefOf(Head(items))>> ELSE <<>>)
         \o ViolationsOf(Tail(items))

\* This step consumes an event of the given kind.
Consumes(kind) == nevents' = nevents + 1 /\ event'.kind = kind

\* The workload of the event consumed last.
EventItem == CHOOSE d \in event.obj : TRUE

\* The number of "namespace/name" lines of a batch text: five pieces of
\* heading, then four pieces per line and one line break between two lines.
BatchLines(msg) == (Len(msg.text) - 4) \div 5

\* The (namespace, name) pairs a batch text lists, in the order of its lines.
BatchEntries(msg) ==
    [i \in 1..BatchLines(msg) |-> <<msg.text[5 * i + 2], msg.text[5 * i + 4]>>]

\* The count a batch text announces.
BatchCount(msg) == msg.text[2]

\* This step is a step of main (the other steps are the transport's: they
\* change closed alone).
LoopStep ==
    <<pc, init_violations, event, inflight, sent, nevents>>'
        # <<pc, init_violations, event, inflight, sent, nevents>>

\* The delivery attempts so far: the completed ones, then the one in flight.
Attempts ==
    [i \in 1..Len(sent) |-> [kind |-> sent[i].kind, msg |-> sent[i].msg]]
    \o (IF inflight = {} THEN <<>> ELSE <<CHOOSE a \in inflight : TRUE>>)

----------------------------------------------------------------------------
(* C1 *)

\* C1: Batch correctness. When an InitDone event is consumed after a listing
\* whose items contain K violating workloads (not compliant, namespace not
\* ignored), the event starts exactly one batch delivery whose text counts and
\* lists exactly those K workloads, in the order they were delivered; when
\* K = 0 it starts no delivery at all. The delivery started is completed once
\* and adds exactly that message to the sink's record.
C1_BatchCorrectness ==
    [][ /\ Consumes("InitDone") =>
            LET K == ViolationsOf(phase_items)
            IN  IF K = <<>>
                THEN inflight' = {} /\ pc' = "recv" /\ sent' = sent
                ELSE /\ pc' = "send_batch"
                     /\ sent' = sent
                     /\ \E a \in inflight' :
                            /\ inflight' = {a}
                            /\ a.kind = "batch"
                            /\ BatchEntries(a.msg) = K
                            /\ BatchCount(a.msg) = ToString(Len(K))
        /\ (pc = "send_batch" /\ LoopStep) =>
            /\ pc' = "recv"
            /\ inflight' = {}
            /\ Len(sent') = Len(sent) + 1
            /\ \A a \in inflight :
                   /\ sent'[Len(sent')].kind = "batch"
                   /\ sent'[Len(sent')].msg = a.msg
      ]_vars

\* A listing of two violating workloads and one other event has been answered by
\* one batch that lists the two in the order delivered, which is not the sorted
\* order.
C1_Witness ==
    /\ pc = "recv"
    /\ event.kind = "InitDone"
    /\ nevents = 4
    /\ Len(sent) = 1
    /\ sent[1].kind = "batch"
    /\ BatchEntries(sent[1].msg) = << <<"prod", "web">>, <<"default", "unknown">> >>

----------------------------------------------------------------------------
(* C9 *)

\* C9: has_node_selector is true exactly when the Deployment has a spec, the
\* pod template has a spec, that spec carries a node-selector mapping and the
\* mapping has at least one entry; every other combination gives false, and
\* every input gives a result.
C9_IsCompliant ==
    /\ cl_out # {} => \A d \in cl_in : cl_out = {Compliant(d)}
    /\ cl_out = {} => ENABLED Classify

\* An empty node-selector mapping has been classified as not compliant.
C9_Witness ==
    /\ cl_out = {FALSE}
    /\ \E d \in cl_in : \E s \in d.spec : \E p \in s.template.spec :
           \E m \in p.node_selector : DOMAIN m = {}

----------------------------------------------------------------------------
(* More vocabulary of the properties *)

\* The workload of the event this step consumes.
NewItem == CHOOSE d \in event'.obj : TRUE

\* main is at try_next() with the last event handled to its end.
Handled == pc = "recv" /\ inflight = {}

\* The set of elements of a sequence.
Range(seq) == {seq[i] : i \in 1..Len(seq)}

\* The workload name a single-item text carries.
SingleName(msg) == msg.text[4]

\* The text contains "ns/name".
ListsRef(msg, ns, name) ==
    \E i \in 1..(Len(msg.text) - 2) :
        msg.text[i] = ns /\ msg.text[i + 1] = "/" /\ msg.text[i + 2] = name

\* The text contains the given piece.
HasPiece(msg, piece) == \E i \in 1..Len(msg.text) : msg.text[i] = piece

\* The Deployment carries neither a name nor a namespace.
Bare(d) == d.metadata.name = {} /\ d.metadata.namespace = {}

----------------------------------------------------------------------------
(* C2 *)

\* C2: Phase isolation. Consuming an InitApply event never starts a delivery
\* and adds nothing to the sink's record; consuming an Apply event never
\* changes init_violations and starts at most a single-item delivery; only an
\* InitApply event makes init_violations grow; and a batch started by InitDone
\* lists only workloads that InitApply events of the listing delivered.
C2_PhaseIsolation ==
    [][ /\ Consumes("InitApply") => pc' = "recv" /\ inflight' = {} /\ sent' = sent
        /\ Consumes("Apply") =>
            /\ init_violations' = init_violations
            /\ sent' = sent
            /\ \A a \in inflight' : a.kind = "single"
        /\ Len(init_violations') > Len(init_violations) => Consumes("InitApply")
        /\ Consumes("InitDone") =>
            \A a \in inflight' :
                /\ a.kind = "batch"
                /\ Range(BatchEntries(a.msg)) \subseteq {RefOf(d) : d \in Range(phase_items)}
      ]_vars

\* The scenario: one violating workload was listed and answered by a batch
\* naming it alone, then another was upserted and answered by one single-item
\* message naming it; four events in all.
C2_Witness ==
    /\ Handled
    /\ nevents = 4
    /\ event.kind = "Apply"
    /\ RefOf(EventItem) = <<"prod", "web">>
    /\ init_violations = <<>>
    /\ Len(sent) = 2
    /\ sent[1].kind = "batch"
    /\ BatchEntries(sent[1].msg) = << <<"default", "unknown">> >>
    /\ sent[2].kind = "single"
    /\ SingleName(sent[2].msg) = "web"

----------------------------------------------------------------------------
(* C3 *)

\* C3 as stated: when an InitDone event directly follows an Init event that
\* discarded one violating workload (the third and fourth events of the
\* sequence Init, InitApply(A), Init, InitDone), a batch notification with
\* no entries is delivered.
C3_Original ==
    [][ ( /\ Consumes("InitDone")
          /\ nevents = 3
          /\ event.kind = "Init"
          /\ Len(stale_items) = 1
          /\ Violating(stale_items[1]) )
        => \E a \in inflight' : a.kind = "batch" /\ BatchEntries(a.msg) = <<>>
      ]_vars

\* C3, amended: an Init event empties init_violations, so an InitDone event
\* that follows a listing without violating workloads starts no delivery at
\* all, whatever an earlier Init event discarded; and a workload delivered
\* before the most recent Init event, and not again after it, is in no batch
\* that InitDone starts.
C3_RestartOfPriming ==
    [][ /\ Consumes("Init") => init_violations' = <<>> /\ pc' = "recv" /\ inflight' = {}
        /\ Consumes("InitDone") =>
            /\ ViolationsOf(phase_items) = <<>> =>
                   pc' = "recv" /\ inflight' = {} /\ sent' = sent
            /\ \A a \in inflight' :
                   Range(BatchEntries(a.msg))
                       \cap ({RefOf(d) : d \in Range(stale_items)}
                                \ {RefOf(d) : d \in Range(phase_items)}) = {}
      ]_vars

\* The listing was restarted after a violating workload had been delivered,
\* then completed, and nothing has been posted.
C3_Witness ==
    /\ Handled
    /\ event.kind = "InitDone"
    /\ Len(stale_items) = 1
    /\ Violating(stale_items[1])
    /\ init_violations = <<>>
    /\ sent = <<>>

----------------------------------------------------------------------------
(* C4 *)

\* The Deployment names a namespace and that namespace is in the ignored set.
InIgnored(d) == \E n \in d.metadata.namespace : n \in ignored_namespaces

\* C4: Namespace exclusion. Consuming an Apply or InitApply event whose
\* workload is in an ignored namespace starts no delivery and leaves
\* init_violations unchanged, compliant or not; init_violations never holds,
\* and no batch text ever lists, a namespace of the ignored set.
C4_NamespaceExclusion ==
    /\ [][ ( /\ Consumes("Apply") \/ Consumes("InitApply")
             /\ InIgnored(NewItem) )
           => /\ pc' = "recv"
              /\ inflight' = {}
              /\ sent' = sent
              /\ init_violations' = init_violations
         ]_vars
    /\ [] /\ \A i \in 1..Len(init_violations) :
                 init_violations[i][1] \notin ignored_namespaces
          /\ \A i \in 1..Len(Attempts) :
                 Attempts[i].kind = "batch" =>
                     \A r \in Range(BatchEntries(Attempts[i].msg)) :
                         r[1] \notin ignored_namespaces

\* A workload without node selector in an ignored namespace was upserted as
\* the second event; nothing has been collected and nothing posted.
C4_Witness ==
    /\ Handled
    /\ nevents = 2
    /\ event.kind = "Apply"
    /\ InIgnored(EventItem)
    /\ ~Compliant(EventItem)
    /\ init_violations = <<>>
    /\ sent = <<>>

----------------------------------------------------------------------------
(* C5 *)

\* C5: Delivery failure isolation. When an awaited delivery completes, with
\* success or failure, main goes back to try_next(): the message is recorded
\* once, nothing stays in flight (no retry), init_violations does not get the
\* violation back (unchanged after a single delivery, empty after a batch),
\* and main has not returned. After a failed delivery the next event, if the
\* stream has one, is accepted like any other, an Apply event included.
C5_DeliveryFailureIsolation ==
    /\ [][ (pc \in {"send_single", "send_batch"} /\ LoopStep) =>
            ( /\ pc' = "recv"
              /\ inflight' = {}
              /\ Len(sent') = Len(sent) + 1
              /\ \A a \in inflight : sent'[Len(sent')].msg = a.msg
              /\ init_violations' =
                     IF pc = "send_batch" THEN <<>> ELSE init_violations )
         ]_vars
    /\ [] ( ( /\ sent # <<>>
              /\ ~sent[Len(sent)].ok
              /\ inflight = {}
              /\ event.kind \in {"Apply", "InitDone"}
              /\ ~closed
              /\ nevents < MaxEvents )
            => /\ pc = "recv"
               /\ \A d \in Deployments : ENABLED Apply(d)
               /\ ENABLED InitDone )

\* A batch delivery failed, the batch is gone, and the next event, an upsert,
\* got its own delivery.
C5_Witness ==
    /\ Handled
    /\ Len(sent) = 2
    /\ sent[1].kind = "batch"
    /\ ~sent[1].ok
    /\ sent[2].kind = "single"
    /\ init_violations = <<>>

----------------------------------------------------------------------------
(* C6 *)

\* C6: Lifecycle of init_violations. It is empty whenever the last event
\* consumed is Init or InitDone and that event has been handled to its end,
\* whatever the outcome of the batch delivery; while a batch delivery is
\* awaited the message in flight lists exactly its entries; at any other time
\* it holds exactly the violations of the InitApply events since the last Init
\* or InitDone, so nothing of an earlier listing is in it.
C6_BatchLifecycle ==
    /\ (Handled /\ event.kind \in {"Init", "InitDone"}) => init_violations = <<>>
    /\ pc = "send_batch" =>
           /\ init_violations # <<>>
           /\ \A a \in inflight : BatchEntries(a.msg) = init_violations
    /\ pc # "send_batch" => init_violations = ViolationsOf(phase_items)

\* A batch delivery has failed and init_violations is empty all the same.
C6_Witness ==
    /\ Handled
    /\ event.kind = "InitDone"
    /\ Len(sent) = 1
    /\ sent[1].kind = "batch"
    /\ ~sent[1].ok
    /\ init_violations = <<>>

----------------------------------------------------------------------------
(* C7 *)

\* C7: Transport failure is fatal. When try_next() returns an error main
\* returns it: no delivery is started, init_violations is left as it is (its
\* entries are not flushed), and after main has returned nothing changes
\* any more.
C7_TransportFailureFatal ==
    [][ /\ event'.kind = "Err" =>
            /\ pc = "recv"
            /\ pc' = "exit_err"
            /\ inflight' = {}
            /\ sent' = sent
            /\ init_violations' = init_violations
            /\ nevents' = nevents
        /\ pc # "exit_err"
      ]_vars

\* main has returned the transport's error with a violation still pending and
\* nothing posted.
C7_Witness ==
    /\ pc = "exit_err"
    /\ event.kind = "Err"
    /\ init_violations # <<>>
    /\ inflight = {}
    /\ sent = <<>>

----------------------------------------------------------------------------
(* C8 *)

\* C8: Steady-state reporting. Consuming an Apply event for a violating
\* workload starts exactly one single-item delivery, whose text names the
\* environment and the workload; for any other workload (compliant, or in an
\* ignored namespace) it starts none. The delivery is completed and recorded
\* once, and no event is consumed while it is in flight.
C8_SteadyStateReporting ==
    [][ /\ Consumes("Apply") =>
            /\ sent' = sent
            /\ IF Violating(NewItem)
               THEN /\ pc' = "send_single"
                    /\ \E a \in inflight' :
                           /\ inflight' = {a}
                           /\ a.kind = "single"
                           /\ Len(a.msg.text) = 4
                           /\ a.msg.text[2] = env_name
                           /\ SingleName(a.msg) = RefOf(NewItem)[2]
               ELSE pc' = "recv" /\ inflight' = {}
        /\ (pc = "send_single" /\ LoopStep) =>
            /\ pc' = "recv"
            /\ inflight' = {}
            /\ Len(sent') = Len(sent) + 1
            /\ \A a \in inflight :
                   /\ sent'[Len(sent')].kind = "single"
                   /\ sent'[Len(sent')].msg = a.msg
        /\ nevents' # nevents => pc = "recv" /\ inflight = {}
      ]_vars

\* Two events that called for no message were followed by the upsert of a
\* violating workload, which got its single-item message.
C8_Witness ==
    /\ Handled
    /\ nevents = 3
    /\ event.kind = "Apply"
    /\ Violating(EventItem)
    /\ Len(sent) = 1
    /\ sent[1].kind = "single"
    /\ SingleName(sent[1].msg) = RefOf(EventItem)[2]

----------------------------------------------------------------------------
(* C10 *)

\* C10 as stated: the notification that an item event for a violating
\* workload without name and namespace leads to, the batch for InitApply and
\* the single-item message for Apply, contains "default/unknown".
C10_Original ==
    [][ /\ (Consumes("InitDone") /\ \E d \in Range(phase_items) : Bare(d) /\ Violating(d))
            => \E a \in inflight' : ListsRef(a.msg, "default", "unknown")
        /\ (Consumes("Apply") /\ Bare(NewItem) /\ Violating(NewItem))
            => \E a \in inflight' : ListsRef(a.msg, "default", "unknown")
      ]_vars

\* C10, amended: an InitApply event for a violating workload without name and
\* namespace is listed as "default/unknown" in the batch that InitDone starts;
\* an Apply event for such a workload starts a single-item message that names
\* the workload "unknown" and carries no namespace at all.
C10_MissingFieldDefaulting ==
    [][ /\ (Consumes("InitDone") /\ \E d \in Range(phase_items) : Bare(d) /\ Violating(d))
            => \E a \in inflight' :
                   /\ a.kind = "batch"
                   /\ ListsRef(a.msg, "default", "unknown")
        /\ (Consumes("Apply") /\ Bare(NewItem) /\ Violating(NewItem))
            => \E a \in inflight' :
                   /\ a.kind = "single"
                   /\ SingleName(a.msg) = "unknown"
                   /\ ~HasPiece(a.msg, "default")
      ]_vars

\* A workload without name and namespace was listed and reported in the batch
\* as default/unknown, then upserted and reported as unknown.
C10_Witness ==
    /\ Handled
    /\ event.kind = "Apply"
    /\ Bare(EventItem)
    /\ Len(sent) = 2
    /\ sent[1].kind = "batch"
    /\ ListsRef(sent[1].msg, "default", "unknown")
    /\ sent[2].kind = "single"
    /\ SingleName(sent[2].msg) = "unknown"
    /\ ~ListsRef(sent[2].msg, "default", "unknown")

----------------------------------------------------------------------------
(* C11 *)

\* C11: Removed events are observability-only. Consuming a Delete event, for
\* whatever workload (violating, compliant or in an ignored namespace), starts
\* no delivery, adds nothing to the sink's record and leaves init_violations as
\* it is, an entry for the same workload included.
C11_RemovedObservabilityOnly ==
    [][ Consumes("Delete") =>
            /\ pc' = "recv"
            /\ inflight' = {}
            /\ sent' = sent
            /\ init_violations' = init_violations
      ]_vars

\* A violating workload was listed and then removed: its entry is still in
\* init_violations and nothing has been posted.
C11_Witness ==
    /\ Handled
    /\ event.kind = "Delete"
    /\ Violating(EventItem)
    /\ init_violations = <<RefOf(EventItem)>>
    /\ sent = <<>>

----------------------------------------------------------------------------
(* C12 *)

\* C12: The violation report is deduplicated. No batch text lists the same
\* (namespace, name) pair on two of its lines, whatever InitApply events the
\* transport delivered during the listing.
C12_Deduplicated ==
    \A i \in 1..Len(Attempts) :
        Attempts[i].kind = "batch" =>
            LET entries == BatchEntries(Attempts[i].msg)
            IN  \A j, k \in 1..Len(entries) : j # k => entries[j] # entries[k]

----------------------------------------------------------------------------
(* C13 *)

\* The workloads reported before the listing in progress: those the batches
\* posted so far list, and the violating ones of the Apply events.
ReportedBefore ==
    UNION {Range(BatchEntries(sent[i].msg)) : i \in {j \in 1..Len(sent) : sent[j].kind = "batch"}}
    \cup {RefOf(d) : d \in {u \in Range(upserted) : Violating(u)}}

\* C13: Re-entrant priming. An Init event consumed after an InitDone event
\* empties init_violations again; the InitApply events of the listing it opens
\* start no delivery and append their violations to init_violations; and the
\* InitDone event that ends it starts one batch that lists exactly the
\* violations of that listing, in order (none when there are none), so that a
\* workload reported before and not delivered again is not in it.
C13_ReentrantPriming ==
    [][ /\ (Consumes("Init") /\ phase \in {"Streaming", "Restreaming"}) =>
            init_violations' = <<>> /\ pc' = "recv" /\ inflight' = {} /\ sent' = sent
        /\ (Consumes("InitApply") /\ phase = "Repriming") =>
            /\ pc' = "recv" /\ inflight' = {} /\ sent' = sent
            /\ init_violations' = ViolationsOf(phase_items')
        /\ (Consumes("InitDone") /\ phase = "Repriming") =>
            LET K == ViolationsOf(phase_items)
            IN  /\ sent' = sent
                /\ K = <<>> => pc' = "recv" /\ inflight' = {}
                /\ K # <<>> =>
                       /\ pc' = "send_batch"
                       /\ \E a \in inflight' :
                              /\ inflight' = {a}
                              /\ a.kind = "batch"
                              /\ BatchEntries(a.msg) = K
                              /\ Range(BatchEntries(a.msg))
                                     \cap (ReportedBefore
                                             \ {RefOf(d) : d \in Range(phase_items)}) = {}
      ]_vars

\* After an InitDone event the listing was started again, delivered one
\* violating workload and ended: one batch, listing that workload, was posted.
C13_Witness ==
    /\ Handled
    /\ nevents = 4
    /\ phase = "Restreaming"
    /\ event.kind = "InitDone"
    /\ init_violations = <<>>
    /\ Len(sent) = 1
    /\ sent[1].kind = "batch"
    /\ BatchEntries(sent[1].msg) = << <<"prod", "web">> >>

----------------------------------------------------------------------------
(* C14 *)

\* C14: Sequential processing with back-pressure. An event is consumed only
\* while no delivery is in flight, one event at a time; a delivery is in flight
\* exactly while main awaits a POST; a delivery starts only when none is in
\* flight and only by consuming an event, one per event at most. Hence the
\* deliveries started never outnumber the events consumed and at most one is
\* outstanding.
C14_BackPressure ==
    /\ [](/\ inflight # {} <=> pc \in {"send_single", "send_batch"}
          /\ Cardinality(inflight) <= 1
          /\ Len(Attempts) <= nevents)
    /\ [][ /\ nevents' # nevents =>
                  /\ nevents' = nevents + 1
                  /\ pc = "recv"
                  /\ inflight = {}
           /\ (inflight' # {} /\ inflight' # inflight) =>
                  /\ inflight = {}
                  /\ nevents' = nevents + 1
                  /\ sent' = sent
           /\ Len(Attempts') <= Len(Attempts) + 1
         ]_vars

\* The second event's delivery is in flight; the first event's delivery was
\* completed, with a failure, before the second event was consumed.
C14_Witness ==
    /\ pc = "send_single"
    /\ nevents = 2
    /\ Len(sent) = 1
    /\ sent[1].kind = "single"
    /\ ~sent[1].ok
    /\ inflight # {}

----------------------------------------------------------------------------
(* C15 *)

\* C15: Clean exit. Once the transport's stream has ended, and given that the
\* delivery in flight (if any) completes, main eventually returns Ok(()). main
\* returns in no other way unless the transport fails: it returns Ok(()) only
\* from try_next() with the stream ended and no delivery in flight, and any
\* other return is the Err of a failed try_next().
C15_CleanExit ==
    /\ closed ~> (pc = "exit_ok")
    /\ [](pc = "exit_ok" => closed /\ inflight = {})
    /\ [][ (pc' # pc /\ pc' \in {"exit_ok", "exit_err"}) =>
               /\ pc = "recv"
               /\ inflight = {}
               /\ sent' = sent
               /\ IF closed
                  THEN pc' = "exit_ok" /\ event'.kind = "End"
                  ELSE pc' = "exit_err" /\ event'.kind = "Err"
         ]_vars

\* main has returned Ok(()) after a run in which a batch was posted and failed.
C15_Witness ==
    /\ pc = "exit_ok"
    /\ closed
    /\ nevents >= 2
    /\ Len(sent) = 1
    /\ sent[1].kind = "batch"
    /\ ~sent[1].ok

----------------------------------------------------------------------------
(* parse_ignored_namespaces and should_ignore_namespace on their own: the
   value of IGNORED_NAMESPACES ranges over the strings of a small alphabet,
   written as sequences of characters so that split and trim are computed. The
   sets of IgnoredChoices are results of this function. *)

MaxConfigLen == 4

\* The characters of a configuration value: two letters that differ in case
\* only, the separator, and two characters char::is_whitespace accepts.
ConfigChars == {"a", "A", ",", " ", "\t"}

WhiteSpace == {" ", "\t"}

ConfigStrings == UNION {[1..n -> ConfigChars] : n \in 0..MaxConfigLen}

\* The namespaces should_ignore_namespace is asked about.
ProbeNamespaces ==
    { <<>>, <<"a">>, <<"A">>, <<"a", "A">>, <<" ", "a">>, <<"a", " ">>, <<" ">> }

RECURSIVE split(_, _)
\* str::split(sep), main.rs:87: the pieces between the separators, as many as
\* there are separators plus one.
split(s, sep) ==
    IF \A i \in 1..Len(s) : s[i] # sep
    THEN <<s>>
    ELSE LET i == CHOOSE k \in 1..Len(s) :
                      s[k] = sep /\ \A j \in 1..(k - 1) : s[j] # sep
         IN  <<SubSeq(s, 1, i - 1)>> \o split(SubSeq(s, i + 1, Len(s)), sep)

RECURSIVE trim_start(_)
trim_start(s) ==
    IF s # <<>> /\ Head(s) \in WhiteSpace THEN trim_start(Tail(s)) ELSE s

RECURSIVE trim_end(_)
trim_end(s) ==
    IF s # <<>> /\ s[Len(s)] \in WhiteSpace
    THEN trim_end(SubSeq(s, 1, Len(s) - 1))
    ELSE s

\* str::trim(), main.rs:88.
trim(s) == trim_end(trim_start(s))

\* Faulty variant of parse_ignored_namespaces: the entries are not trimmed.
parse_ignored_namespaces_no_trim(var) ==
    LET pieces == split(UnwrapOr(var, <<>>), ",")
    IN  {pieces[i] : i \in {j \in 1..Len(pieces) : pieces[j] # <<>>}}

\* parse_ignored_namespaces, main.rs:84-91; var is env::var("IGNORED_NAMESPACES")
\* as an Option (None: unset, or not Unicode).
parse_ignored_namespaces(var) ==
    LET pieces  == split(UnwrapOr(var, <<>>), ",")
        trimmed == [i \in 1..Len(pieces) |-> trim(pieces[i])]
    IN  {trimmed[i] : i \in {j \in 1..Len(trimmed) : trimmed[j] # <<>>}}

InitParse ==
    /\ pc = "parse"
    /\ pr_in \in {None} \cup {Some(s) : s \in ConfigStrings}
    /\ pr_out = None
    /\ mt_out = None
    /\ init_violations = <<>>
    /\ ignored_namespaces = {}
    /\ event = Ev("none", None)
    /\ inflight = None
    /\ sent = <<>>
    /\ nevents = 0
    /\ phase_items = <<>>
    /\ stale_items = <<>>
    /\ phase = "Priming"
    /\ upserted = <<>>
    /\ closed = FALSE
    /\ cl_in = None
    /\ cl_out = None

\* let ignored_namespaces = parse_ignored_namespaces(), main.rs:107.
Parse ==
    /\ pc = "parse"
    /\ pr_out' = Some(parse_ignored_namespaces(pr_in))
    /\ pc' = "match"
    /\ UNCHANGED <<init_violations, ignored_namespaces, event, inflight, sent, nevents,
                   hist_vars, closed, cl_in, cl_out, pr_in, mt_out>>

\* should_ignore_namespace(namespace, &ignored_namespaces), main.rs:133, 164.
Match(namespace) ==
    /\ pc = "match"
    /\ mt_out' = Some([namespace |-> namespace,
                       result    |-> should_ignore_namespace(namespace, Unwrap(pr_out))])
    /\ pc' = "matched"
    /\ UNCHANGED <<init_violations, ignored_namespaces, event, inflight, sent, nevents,
                   hist_vars, closed, cl_in, cl_out, pr_in, pr_out>>

NextParse ==
    \/ Parse
    \/ \E namespace \in ProbeNamespaces : Match(namespace)

SpecParse == InitParse /\ [][NextParse]_vars

----------------------------------------------------------------------------
(* C16 *)

\* e is an entry of the configuration value cfg: a stretch of cfg without a
\* separator, that neither starts nor ends with whitespace, and that has
\* nothing but whitespace between it and the separators (or the ends of cfg)
\* around it.
IsEntry(e, cfg) ==
    \E i, j \in 1..Len(cfg) :
        /\ i <= j
        /\ e = SubSeq(cfg, i, j)
        /\ \A k \in i..j : cfg[k] # ","
        /\ cfg[i] \notin WhiteSpace
        /\ cfg[j] \notin WhiteSpace
        /\ \E lo \in 0..(i - 1) :
               /\ lo = 0 \/ cfg[lo] = ","
               /\ \A k \in (lo + 1)..(i - 1) : cfg[k] \in WhiteSpace
        /\ \E hi \in (j + 1)..(Len(cfg) + 1) :
               /\ hi = Len(cfg) + 1 \/ cfg[hi] = ","
               /\ \A k \in (j + 1)..(hi - 1) : cfg[k] \in WhiteSpace

\* C16: Ignored-set construction and matching. The set built from the
\* configuration value holds exactly its entries, trimmed; it never holds the
\* empty string or a string of whitespace only; an unset or empty value gives
\* the empty set. A namespace is excluded exactly when the set holds the very
\* same string: same length, same characters.
C16_IgnoredSet ==
    /\ pr_out # None =>
           LET cfg == UnwrapOr(pr_in, <<>>)
               S   == Unwrap(pr_out)
           IN  /\ \A e \in S : IsEntry(e, cfg)
               /\ \A i, j \in 1..Len(cfg) :
                      IsEntry(SubSeq(cfg, i, j), cfg) => SubSeq(cfg, i, j) \in S
               /\ \A e \in S : e # <<>> /\ \E k \in 1..Len(e) : e[k] \notin WhiteSpace
               /\ (pr_in = None \/ cfg = <<>>) => S = {}
    /\ mt_out # None =>
           LET S == Unwrap(pr_out)
               m == Unwrap(mt_out)
           IN  m.result <=>
                   \E e \in S : /\ Len(e) = Len(m.namespace)
                                /\ \A k \in 1..Len(e) : e[k] = m.namespace[k]

\* IGNORED_NAMESPACES is " a,\t": the set holds "a" alone, the entry of
\* whitespace is discarded, and the namespace "aA", which "a" is a prefix of, is
\* not excluded.
C16_Witness ==
    /\ pr_in = Some(<<" ", "a", ",", "\t">>)
    /\ pr_out = Some({<<"a">>})
    /\ mt_out = Some([namespace |-> <<"a", "A">>, result |-> FALSE])

----------------------------------------------------------------------------
(* C17 *)

\* What two runs over the same events and the same ignored set must agree on:
\* where main is, the batch, and the delivery attempts without their outcomes.
LowView == <<pc, init_violations, Attempts, event, nevents, ignored_namespaces>>

\* C17: Delivery outcomes do not influence the loop, stated step by step. (1)
\* While a POST is awaited both outcomes are possible, and the step that
\* completes it leaves main at try_next(), the attempts and the events as they
\* were and the batch empty after a batch, unchanged after a single item,
\* whatever the outcome. (2) A step of main at try_next() changes the batch
\* and the attempts as a function of the event it consumes, the batch, the
\* attempts and the ignored set alone. By induction two runs that differ only
\* in the outcomes agree on the attempts and on the batch after each event.
C17_OutcomeIndependence ==
    [][ /\ pc = "send_single" =>
               ENABLED SingleSendComplete(TRUE) /\ ENABLED SingleSendComplete(FALSE)
        /\ pc = "send_batch" =>
               ENABLED BatchSendComplete(TRUE) /\ ENABLED BatchSendComplete(FALSE)
        /\ (pc \in {"send_single", "send_batch"} /\ LoopStep) =>
               LowView' = <<"recv",
                            IF pc = "send_batch" THEN <<>> ELSE init_violations,
                            Attempts, event, nevents, ignored_namespaces>>
        /\ (pc = "recv" /\ LoopStep) =>
               /\ ignored_namespaces' = ignored_namespaces
               /\ event'.kind \in {"Init", "InitApply", "InitDone", "Apply", "Delete"}
                      <=> nevents' = nevents + 1
               /\ event'.kind \in {"Err", "End"} <=> nevents' = nevents
               /\ init_violations' =
                      CASE event'.kind = "Init" -> <<>>
                        [] event'.kind = "InitApply" ->
                               init_violations \o ViolationsOf(<<NewItem>>)
                        [] OTHER -> init_violations
               /\ Attempts' = Attempts \o
                      CASE event'.kind = "Apply" /\ Violating(NewItem) ->
                               << [kind |-> "single",
                                   msg  |-> single_message(env_name, RefOf(NewItem)[2])] >>
                        [] event'.kind = "InitDone" /\ init_violations # <<>> ->
                               << [kind |-> "batch",
                                   msg  |-> batch_message(env_name, init_violations)] >>
                        [] OTHER -> <<>>
               /\ pc' = CASE event'.kind = "Err" -> "exit_err"
                          [] event'.kind = "End" -> "exit_ok"
                          [] Len(Attempts') = Len(Attempts) -> "recv"
                          [] OTHER -> IF event'.kind = "Apply" THEN "send_single"
                                      ELSE "send_batch"
      ]_vars

\* A batch was posted and failed, then a single item was posted and succeeded;
\* main is back at try_next() with the batch empty.
C17_Witness ==
    /\ Handled
    /\ Len(sent) = 2
    /\ sent[1].kind = "batch" /\ ~sent[1].ok
    /\ sent[2].kind = "single" /\ sent[2].ok
    /\ init_violations = <<>>
    /\ event.kind = "Apply"

----------------------------------------------------------------------------
(* C18 *)

\* The single-item attempts so far, by their position among the attempts.
SingleAttempts ==
    LET A == Attempts
    IN  [i \in {j \in 1..Len(A) : A[j].kind = "single"} |-> A[i]]

\* The number of elements of a sequence (or of part of one) that satisfy Test.
CountIn(seq, Test(_)) == Cardinality({i \in DOMAIN seq : Test(seq[i])})

\* C18: No steady-state suppression. For every workload name, the single-item
\* attempts that carry it are as many as the Apply events that delivered a
\* violating workload of that name: n such events make exactly n attempts. The
\* step that consumes such an event starts its attempt even when an earlier
\* Apply event or a batch reported the workload already.
C18_NoSuppression ==
    /\ [](LET S == SingleAttempts
              V == ViolationsOf(upserted)
          IN  \A name \in {RefOf(d)[2] : d \in Deployments} :
                  CountIn(S, LAMBDA a : SingleName(a.msg) = name)
                      = CountIn(V, LAMBDA v : v[2] = name))
    /\ [][ (Consumes("Apply") /\ Violating(NewItem) /\ RefOf(NewItem) \in ReportedBefore) =>
               /\ pc' = "send_single"
               /\ \E a \in inflight' : a.kind = "single"
                                       /\ SingleName(a.msg) = RefOf(NewItem)[2]
         ]_vars

\* A workload listed by the batch was then delivered by two Apply events: the
\* first one's single-item attempt is completed, the second one's is in flight.
C18_Witness ==
    /\ pc = "send_single"
    /\ nevents = 4
    /\ Len(sent) = 2
    /\ sent[1].kind = "batch"
    /\ BatchEntries(sent[1].msg) = << <<"prod", "web">> >>
    /\ sent[2].kind = "single"
    /\ SingleName(sent[2].msg) = "web"
    /\ \E a \in inflight : a.kind = "single" /\ SingleName(a.msg) = "web"
    /\ Len(upserted) = 2

----------------------------------------------------------------------------
(* C19 *)

\* C19: Exclusion is decided on the defaulted namespace. When an InitApply or
\* Apply event delivers a workload without a namespace and "default" is in the
\* ignored set, the event is skipped: no delivery, init_violations unchanged.
\* When "default" is not in the set and the workload is not compliant, it is
\* not skipped: InitApply appends it to init_violations under the namespace
\* "default", Apply starts its single-item delivery.
C19_DefaultedNamespace ==
    [][ ((Consumes("InitApply") \/ Consumes("Apply"))
            /\ NewItem.metadata.namespace = {}) =>
            /\ "default" \in ignored_namespaces =>
                   /\ pc' = "recv"
                   /\ inflight' = {}
                   /\ sent' = sent
                   /\ init_violations' = init_violations
            /\ ("default" \notin ignored_namespaces /\ ~Compliant(NewItem)) =>
                   IF event'.kind = "InitApply"
                   THEN /\ init_violations'
                               = Append(init_violations, <<"default", RefOf(NewItem)[2]>>)
                        /\ pc' = "recv"
                        /\ inflight' = {}
                   ELSE /\ pc' = "send_single"
                        /\ init_violations' = init_violations
                        /\ \E a \in inflight' :
                               a.kind = "single" /\ SingleName(a.msg) = RefOf(NewItem)[2]
      ]_vars

\* With "default" ignored, a listing delivered a non-compliant workload without
\* a namespace, an Apply event delivered it again, and nothing was collected or
\* posted.
C19_Witness ==
    /\ ignored_namespaces = {"default"}
    /\ Handled
    /\ event.kind = "Apply"
    /\ EventItem.metadata.namespace = {}
    /\ ~Compliant(EventItem)
    /\ Len(phase_items) = 1
    /\ phase_items[1].metadata.namespace = {}
    /\ init_violations = <<>>
    /\ sent = <<>>

====
